---- MODULE Spec2Model ----
(***************************************************************************)
(* The unit-fraction algebra of laminations-lib (src/src/lib.rs):          *)
(* parse_digit_parts, value_from_digits, UnitFraction::parse_nary,         *)
(* UnitFraction::to_rational, the derived PartialEq and the Ord impl.      *)
(*                                                                         *)
(* A string is a sequence of one-character strings.  A u128 is a sequence  *)
(* of at most U128Bytes bytes, least significant first, without leading    *)
(* zero bytes (<< >> is 0), so that the 128-bit arithmetic of the code is  *)
(* computed exactly.  Arithmetic that overflows panics in a debug build    *)
(* and wraps in a release build; `build` is the build under analysis.      *)
(***************************************************************************)
EXTENDS Integers, Sequences, FiniteSets, TLC

VARIABLES
    base,   \* LaminationAlgebra.base
    build,  \* "debug" (overflow checks on) or "release" (wrapping)
    s,      \* the text last handed to parse for x
    t,      \* the text last handed to parse for y
    x,      \* result of algebra.parse(s)
    y,      \* result of algebra.parse(t)
    out     \* what the last call on x (and y) returned

vars == <<base, build, s, t, x, y, out>>

-----------------------------------------------------------------------------
(* Natural numbers as byte sequences (the u128 of the code is 16 bytes).    *)

ByteBase == 2^8

U128Bytes == 16

Zero == << >>

One == <<1>>

RECURSIVE Trim(_)
Trim(a) ==
    IF a = << >> THEN a
    ELSE IF a[Len(a)] = 0 THEN Trim(SubSeq(a, 1, Len(a) - 1)) ELSE a

RECURSIVE FromInt(_)
FromInt(n) == IF n = 0 THEN << >> ELSE <<n % ByteBase>> \o FromInt(n \div ByteBase)

RECURSIVE ToInt(_)
ToInt(a) == IF a = << >> THEN 0 ELSE a[1] + ByteBase * ToInt(Tail(a))

ByteAt(a, i) == IF i <= Len(a) THEN a[i] ELSE 0

RECURSIVE AddFrom(_, _, _, _)
AddFrom(a, b, i, carry) ==
    IF i > Len(a) /\ i > Len(b)
    THEN IF carry = 0 THEN << >> ELSE <<carry>>
    ELSE LET sum == ByteAt(a, i) + ByteAt(b, i) + carry
         IN  <<sum % ByteBase>> \o AddFrom(a, b, i + 1, sum \div ByteBase)

NatAdd(a, b) == AddFrom(a, b, 1, 0)

\* a - b for a >= b
RECURSIVE SubFrom(_, _, _, _)
SubFrom(a, b, i, borrow) ==
    IF i > Len(a) THEN << >>
    ELSE LET d == ByteAt(a, i) - ByteAt(b, i) - borrow
         IN  IF d < 0 THEN <<d + ByteBase>> \o SubFrom(a, b, i + 1, 1)
                      ELSE <<d>> \o SubFrom(a, b, i + 1, 0)

NatSub(a, b) == Trim(SubFrom(a, b, 1, 0))

RECURSIVE LessFrom(_, _, _)
LessFrom(a, b, i) ==
    IF i = 0 THEN FALSE
    ELSE IF a[i] # b[i] THEN a[i] < b[i] ELSE LessFrom(a, b, i - 1)

NatLess(a, b) ==
    IF Len(a) # Len(b) THEN Len(a) < Len(b) ELSE LessFrom(a, b, Len(a))

\* the sum of a[i] * b[k + 1 - i] over the i from lo up: column k of a * b
RECURSIVE Column(_, _, _, _)
Column(a, b, k, i) ==
    IF i > Len(a) \/ i > k THEN 0
    ELSE a[i] * ByteAt(b, k + 1 - i) + Column(a, b, k, i + 1)

\* the columns cols[i..] with the carries moved up
RECURSIVE Carry(_, _, _)
Carry(cols, i, carry) ==
    IF i > Len(cols)
    THEN IF carry = 0 THEN << >>
         ELSE <<carry % ByteBase>> \o Carry(cols, i, carry \div ByteBase)
    ELSE <<(cols[i] + carry) % ByteBase>>
         \o Carry(cols, i + 1, (cols[i] + carry) \div ByteBase)

NatMul(a, b) ==
    IF a = << >> \/ b = << >> THEN << >>
    ELSE Trim(Carry([k \in 1..(Len(a) + Len(b) - 1) |->
                        Column(a, b, k, IF k > Len(b) THEN k + 1 - Len(b) ELSE 1)],
                    1, 0))

\* a \div 2
RECURSIVE HalfFrom(_, _)
HalfFrom(a, i) ==
    IF i > Len(a) THEN << >>
    ELSE <<(a[i] \div 2) + (ByteAt(a, i + 1) % 2) * (ByteBase \div 2)>>
         \o HalfFrom(a, i + 1)

NatHalf(a) == Trim(HalfFrom(a, 1))

NatEven(a) == a = << >> \/ a[1] % 2 = 0

NatDouble(a) == NatAdd(a, a)

\* one step of the binary gcd on [a, b, twos]
GcdStep(st) ==
    IF NatEven(st.a) /\ NatEven(st.b)
    THEN [a |-> NatHalf(st.a), b |-> NatHalf(st.b), twos |-> st.twos + 1]
    ELSE IF NatEven(st.a) THEN [st EXCEPT !.a = NatHalf(st.a)]
    ELSE IF NatEven(st.b) THEN [st EXCEPT !.b = NatHalf(st.b)]
    ELSE IF NatLess(st.a, st.b) THEN [st EXCEPT !.b = NatHalf(NatSub(st.b, st.a))]
    ELSE [st EXCEPT !.a = NatHalf(NatSub(st.a, st.b))]

\* n steps, stopping once a or b is 0; the steps are halved between two
\* calls to keep the evaluation shallow
RECURSIVE GcdIter(_, _)
GcdIter(st, n) ==
    IF st.a = << >> \/ st.b = << >> \/ n = 0 THEN st
    ELSE IF n = 1 THEN GcdStep(st)
    ELSE GcdIter(GcdIter(st, n \div 2), n - n \div 2)

NatSquare(a) == NatMul(a, a)

RECURSIVE NatPow2(_)
NatPow2(k) ==
    IF k = 0 THEN One
    ELSE IF k % 2 = 0 THEN NatSquare(NatPow2(k \div 2))
    ELSE NatDouble(NatSquare(NatPow2(k \div 2)))

GcdResult(st) == NatMul(NatAdd(st.a, st.b), NatPow2(st.twos))

NatGcd(a, b) ==
    GcdResult(GcdIter([a |-> a, b |-> b, twos |-> 0], 16 * (Len(a) + Len(b)) + 1))

\* bit i (0 is the least significant) of a
BitAt(a, i) == (ByteAt(a, (i \div 8) + 1) \div (2 ^ (i % 8))) % 2

\* binary long division by d # 0: [q, r, i] after the bits above bit i
DivBit(q, r, i, d) ==
    IF NatLess(r, d)
    THEN [q |-> q, r |-> r, i |-> i]
    ELSE [q |-> NatAdd(q, One), r |-> NatSub(r, d), i |-> i]

DivStep(st, a, d) ==
    DivBit(NatDouble(st.q),
           NatAdd(NatDouble(st.r), IF BitAt(a, st.i - 1) = 1 THEN One ELSE Zero),
           st.i - 1, d)

RECURSIVE DivIter(_, _, _, _)
DivIter(st, a, d, n) ==
    IF st.i = 0 \/ n = 0 THEN st
    ELSE IF n = 1 THEN DivStep(st, a, d)
    ELSE DivIter(DivIter(st, a, d, n \div 2), a, d, n - n \div 2)

NatDiv(a, d) == DivIter([q |-> Zero, r |-> Zero, i |-> 8 * Len(a)], a, d, 8 * Len(a)).q

-----------------------------------------------------------------------------
(* u128 arithmetic: `v` is the wrapped result, `of` tells that it overflowed *)

Wrap(a) == IF Len(a) > U128Bytes THEN Trim(SubSeq(a, 1, U128Bytes)) ELSE a

U128Max == [i \in 1..U128Bytes |-> ByteBase - 1]

Checked(r) == [v |-> Wrap(r), of |-> Len(r) > U128Bytes]

UAdd(a, b) == Checked(NatAdd(a, b))

UMul(a, b) == Checked(NatMul(a, b))

USub(a, b) ==
    IF NatLess(a, b)
    THEN [v |-> NatAdd(NatSub(U128Max, NatSub(b, a)), One), of |-> TRUE]
    ELSE [v |-> NatSub(a, b), of |-> FALSE]

\* num::pow::pow(base, exp): exponentiation by squaring with `*`;
\*   while exp & 1 == 0 { base = base * base; exp >>= 1 }
\*   if exp == 1 { return base }
\*   acc = base; while exp > 1 { exp >>= 1; base = base * base;
\*                               if exp & 1 == 1 { acc = acc * base } }
\* the state [b, exp, acc, of] after one turn of the second loop
PowAcc(st, sq, prod) ==
    [b |-> sq.v, exp |-> st.exp \div 2, acc |-> prod.v, of |-> st.of \/ sq.of \/ prod.of]

PowSquared(st, sq) ==
    IF (st.exp \div 2) % 2 = 1
    THEN PowAcc(st, sq, UMul(st.acc, sq.v))
    ELSE [b |-> sq.v, exp |-> st.exp \div 2, acc |-> st.acc, of |-> st.of \/ sq.of]

RECURSIVE PowLoop(_)
PowLoop(st) ==
    IF st.exp <= 1 THEN [v |-> st.acc, of |-> st.of]
    ELSE PowLoop(PowSquared(st, UMul(st.b, st.b)))

\* the state [b, exp, of] after one turn of the first loop
PowStripped(st, sq) == [b |-> sq.v, exp |-> st.exp \div 2, of |-> st.of \/ sq.of]

RECURSIVE PowStrip(_)
PowStrip(st) ==
    IF st.exp % 2 = 0 THEN PowStrip(PowStripped(st, UMul(st.b, st.b)))
    ELSE IF st.exp = 1 THEN [v |-> st.b, of |-> st.of]
    ELSE PowLoop([b |-> st.b, exp |-> st.exp, acc |-> st.b, of |-> st.of])

pow(b, exp) ==
    IF exp = 0 THEN [v |-> One, of |-> FALSE]
    ELSE PowStrip([b |-> b, exp |-> exp, of |-> FALSE])

\* num::rational::Ratio::new(numer, denom): panics on a zero denominator,
\* otherwise the fraction reduced by the gcd
Reduced(numer, denom, g) ==
    [tag |-> "Ok", numer |-> NatDiv(numer, g), denom |-> NatDiv(denom, g)]

Ratio_new(numer, denom) ==
    IF denom = Zero THEN [tag |-> "Panic", numer |-> Zero, denom |-> Zero]
    ELSE Reduced(numer, denom, NatGcd(numer, denom))

\* Ord for Ratio<u128>: the order of the values
NatCmp(l, r) ==
    IF NatLess(l, r) THEN "Less" ELSE IF NatLess(r, l) THEN "Greater" ELSE "Equal"

Ratio_cmp(a, b) == NatCmp(NatMul(a.numer, b.denom), NatMul(b.numer, a.denom))

-----------------------------------------------------------------------------
(* Text: str::split and str::parse::<u8>                                     *)

DigitChars == <<"0", "1", "2", "3", "4", "5", "6", "7", "8", "9">>

IsDigitChar(c) == \E i \in 1..Len(DigitChars) : DigitChars[i] = c

DigitValue(c) == (CHOOSE i \in 1..Len(DigitChars) : DigitChars[i] = c) - 1

\* the parts of str around the positions P of the separator
SplitAt(str, P) ==
    LET Cut(k) == IF k = 0 THEN 0
                  ELSE IF k = Cardinality(P) + 1 THEN Len(str) + 1
                  ELSE CHOOSE p \in P : Cardinality({q \in P : q <= p}) = k
    IN  [k \in 1..(Cardinality(P) + 1) |-> SubSeq(str, Cut(k - 1) + 1, Cut(k) - 1)]

\* str.split(sep) for a one-character separator
Split(str, sep) == SplitAt(str, {i \in 1..Len(str) : str[i] = sep})

\* str.split(""): an empty part, every character, an empty part
SplitChars(str) == << << >> >> \o [i \in 1..Len(str) |-> <<str[i]>>] \o << << >> >>

\* the decimal value of digit characters, stopping to grow once above u8::MAX
RECURSIVE Decimal(_, _, _)
Decimal(tok, i, acc) ==
    IF i > Len(tok) \/ acc >= ByteBase THEN acc
    ELSE Decimal(tok, i + 1, acc * 10 + DigitValue(tok[i]))

U8OrError(v) == IF v >= ByteBase THEN -1 ELSE v

Unsigned(digits) ==
    IF digits = << >> \/ \E i \in 1..Len(digits) : ~IsDigitChar(digits[i])
    THEN -1
    ELSE U8OrError(Decimal(digits, 1, 0))

\* digit.parse::<u8>(): the value, or -1 for Err(ParseIntError)
parse_u8(tok) == Unsigned(IF tok # << >> /\ tok[1] = "+" THEN Tail(tok) ELSE tok)

-----------------------------------------------------------------------------
(* parse_digit_parts, value_from_digits, UnitFraction                        *)

NoError == [kind |-> "none", token |-> << >>]

\* .map(parse::<u8>).collect(): the digits, or the first Err
Collect(tokens, values) ==
    IF \A i \in 1..Len(tokens) : values[i] # -1
    THEN [ok |-> TRUE, digits |-> values, err |-> NoError]
    ELSE [ok |-> FALSE, digits |-> << >>,
          err |-> [kind  |-> "not numerical",
                   token |-> tokens[CHOOSE i \in 1..Len(tokens) :
                                       /\ values[i] = -1
                                       /\ \A j \in 1..(i - 1) : values[j] # -1]]]

MapParse(tokens) == Collect(tokens, [i \in 1..Len(tokens) |-> parse_u8(tokens[i])])

\* the closure parse_digits of parse_digit_parts
parse_digits(digits, b) ==
    MapParse(SelectSeq(IF b < 10 THEN SplitChars(digits) ELSE Split(digits, ","),
                       LAMBDA tok : Len(tok) > 0))

DigitParts(exact, repeating) ==
    IF ~exact.ok
    THEN [ok |-> FALSE, exact |-> << >>, repeating |-> << >>, err |-> exact.err]
    ELSE IF ~repeating.ok
    THEN [ok |-> FALSE, exact |-> << >>, repeating |-> << >>, err |-> repeating.err]
    ELSE [ok |-> TRUE, exact |-> exact.digits, repeating |-> repeating.digits,
          err |-> NoError]

\* the test with the count of the parts off by one
TooManyPartsLax(parts) == Len(parts) > 3

TooManyParts(parts) == Len(parts) > 2

PartsChecked(parts, b) ==
    IF TooManyParts(parts)
    THEN [ok |-> FALSE, exact |-> << >>, repeating |-> << >>,
          err |-> [kind |-> "more than one underscore", token |-> << >>]]
    ELSE DigitParts(parse_digits(parts[1], b),
                    parse_digits(IF Len(parts) >= 2 THEN parts[2] ELSE << >>, b))

parse_digit_parts(b, str) == PartsChecked(Split(str, "_"), b)

\* one step of the fold of value_from_digits on (sum, exp):
\*   (sum + (digit as u128) * exp, exp * (base as u128))
FoldTuple(acc, prod, sum, exp) ==
    [sum |-> sum.v, exp |-> exp.v, of |-> acc.of \/ prod.of \/ sum.of \/ exp.of]

FoldSum(acc, prod, exp) == FoldTuple(acc, prod, UAdd(acc.sum, prod.v), exp)

FoldStep(acc, digit, b) ==
    FoldSum(acc, UMul(FromInt(digit), acc.exp), UMul(acc.exp, FromInt(b)))

\* the fold over digits[lo..hi] from the last to the first, the range halved
\* between two calls; once exp has wrapped to 0 a step changes nothing
RECURSIVE FoldRev(_, _, _, _, _)
FoldRev(acc, digits, lo, hi, b) ==
    IF acc.exp = Zero \/ lo > hi THEN acc
    ELSE IF lo = hi THEN FoldStep(acc, digits[lo], b)
    ELSE FoldRev(FoldRev(acc, digits, ((lo + hi) \div 2) + 1, hi, b),
                 digits, lo, (lo + hi) \div 2, b)

FoldResult(r) == [v |-> r.sum, of |-> r.of]

\* [v: the sum, wrapped; of: some operation overflowed]
value_from_digits(b, digits) ==
    FoldResult(FoldRev([sum |-> Zero, exp |-> One, of |-> FALSE],
                       digits, 1, Len(digits), b))

UnitFraction_new(exact_num, exact_len, repeating_num, repeating_len) ==
    [exact_num |-> exact_num, exact_len |-> exact_len,
     repeating_num |-> repeating_num, repeating_len |-> repeating_len]

NoFraction == UnitFraction_new(Zero, 0, Zero, 0)

\* `len() as u8`
AsU8(n) == n % ByteBase

\* Ok(UnitFraction::new(..)), or the panic of an overflow check
FromValues(parts, exact_num, repeating_num, bld) ==
    IF bld = "debug" /\ (exact_num.of \/ repeating_num.of)
    THEN [tag |-> "Panic", val |-> NoFraction, err |-> NoError]
    ELSE [tag |-> "Ok",
          val |-> UnitFraction_new(exact_num.v, AsU8(Len(parts.exact)),
                                   repeating_num.v, AsU8(Len(parts.repeating))),
          err |-> NoError]

FromParts(parts, b, bld) ==
    IF ~parts.ok
    THEN [tag |-> "Err", val |-> NoFraction, err |-> parts.err]
    ELSE FromValues(parts, value_from_digits(b, parts.exact),
                    value_from_digits(b, parts.repeating), bld)

\* Result<UnitFraction, String>, or the panic of an overflow check
parse_nary(b, str, bld) == FromParts(parse_digit_parts(b, str), b, bld)

\* LaminationAlgebra::parse
parse(b, str, bld) == parse_nary(b, str, bld)

NoRatio == [tag |-> "None", numer |-> Zero, denom |-> Zero]

\* if result == 0 { return 1 }
ClampToOne(p, result) ==
    [v |-> IF result.v = Zero THEN One ELSE result.v, of |-> p.of \/ result.of]

PowMinusOne(p) == ClampToOne(p, USub(p.v, One))

get_repeating_denominator(f, b) == PowMinusOne(pow(FromInt(b), f.repeating_len))

\* Ratio::new(numerator, denominator), or the panic of an overflow check
RatioChecked(overflow, numerator, denominator, bld) ==
    IF bld = "debug" /\ (overflow \/ numerator.of \/ denominator.of)
    THEN [tag |-> "Panic", numer |-> Zero, denom |-> Zero]
    ELSE Ratio_new(numerator.v, denominator.v)

Numerator(f, rd, exact_pow, scaled, denominator, bld) ==
    RatioChecked(rd.of \/ exact_pow.of \/ scaled.of,
                 UAdd(scaled.v, f.repeating_num), denominator, bld)

Denominator(f, rd, exact_pow, bld) ==
    Numerator(f, rd, exact_pow, UMul(rd.v, f.exact_num), UMul(rd.v, exact_pow.v), bld)

to_rational(f, b, bld) ==
    Denominator(f, get_repeating_denominator(f, b), pow(FromInt(b), f.exact_len), bld)

\* #[derive(PartialEq)]: field by field
UnitFraction_eq(a, b) ==
    /\ a.exact_num = b.exact_num
    /\ a.exact_len = b.exact_len
    /\ a.repeating_num = b.repeating_num
    /\ a.repeating_len = b.repeating_len

CmpRatios(l, r) ==
    IF l.tag = "Panic" \/ r.tag = "Panic" THEN "Panic" ELSE Ratio_cmp(l, r)

\* impl Ord for UnitFraction
cmp(a, b, bld) == CmpRatios(to_rational(a, 2, bld), to_rational(b, 2, bld))

\* impl PartialOrd for UnitFraction
partial_cmp(a, b, bld) == cmp(a, b, bld)

-----------------------------------------------------------------------------
(* The program: an algebra of one base, two parsed values, and the calls     *)
(* the library offers on them                                                *)

\* the methods UnitFraction offers: its own, the trait's, the derived ones
UnitNumber_methods == {"parse_nary", "to_rational", "to_float"}

UnitFraction_methods ==
    {"new"} \cup UnitNumber_methods \cup {"eq", "cmp", "partial_cmp", "fmt"}

Builds == {"debug", "release"}

NotParsed == [tag |-> "None", val |-> NoFraction, err |-> NoError]

NoOutput == [op |-> "none", ratio |-> NoRatio, equal |-> FALSE, ordering |-> "none"]

MaxLen == 2

MaxParseLen == 3

Bases == {2, 3, 12}

Strings(chars, n) == UNION {[1..k -> chars] : k \in 0..n}

\* texts of digits below the base, with "_" and, from base 10 on, ","
Chars(b) ==
    IF b < 10 THEN {DigitChars[d + 1] : d \in 0..(b - 1)} \cup {"_"}
    ELSE {"0", "1", ",", "_"}

Inputs(b) == Strings(Chars(b), MaxLen)

\* texts with digits of every base, a digit of none ("o"), a sign and the separators
ParseChars == {"0", "1", "2", "3", "o", "+", ",", "_"}

ParseInputs == Strings(ParseChars, MaxParseLen)

\* long texts: a run of the digit 1, or two runs around "_", of the lengths
\* at which a power of the base meets the 128 bits of a u128
U128Bits == 8 * U128Bytes

WideLens == {U128Bits \div 2, (U128Bits \div 2) + 1, U128Bits}

Run(c, n) == [i \in 1..n |-> c]

WideInputs ==
    {Run("1", n) : n \in WideLens}
    \cup {Run("1", m) \o <<"_">> \o Run("1", n) :
             m \in WideLens \ {U128Bits}, n \in WideLens \ {U128Bits}}

NarrowInputs == {<<"1">>, <<"_", "1">>}

Init ==
    /\ base \in Bases
    /\ build \in Builds
    /\ s = << >>
    /\ t = << >>
    /\ x = NotParsed
    /\ y = NotParsed
    /\ out = NoOutput

\* let x = algebra.parse(str)
ParseX(str) ==
    /\ s' = str
    /\ x' = parse(base, str, build)
    /\ out' = NoOutput
    /\ UNCHANGED <<base, build, t, y>>

\* let y = algebra.parse(str)
ParseY(str) ==
    /\ t' = str
    /\ y' = parse(base, str, build)
    /\ out' = NoOutput
    /\ UNCHANGED <<base, build, s, x>>

\* x.to_rational(algebra.base)
ToRational ==
    /\ x.tag = "Ok"
    /\ out' = [NoOutput EXCEPT !.op = "to_rational",
                               !.ratio = to_rational(x.val, base, build)]
    /\ UNCHANGED <<base, build, s, t, x, y>>

\* x == y
Eq ==
    /\ x.tag = "Ok" /\ y.tag = "Ok"
    /\ out' = [NoOutput EXCEPT !.op = "eq", !.equal = UnitFraction_eq(x.val, y.val)]
    /\ UNCHANGED <<base, build, s, t, x, y>>

\* x.cmp(&y), which x < y and x > y go through
Cmp ==
    /\ x.tag = "Ok" /\ y.tag = "Ok"
    /\ out' = [NoOutput EXCEPT !.op = "cmp",
                               !.ordering = partial_cmp(x.val, y.val, build)]
    /\ UNCHANGED <<base, build, s, t, x, y>>

Next ==
    \/ \E str \in Inputs(base) : ParseX(str)
    \/ \E str \in Inputs(base) : ParseY(str)
    \/ ToRational
    \/ Eq
    \/ Cmp

Spec == Init /\ [][Next]_vars

\* parsing alone, on texts with every kind of character
NextParse == \E str \in ParseInputs : ParseX(str)

SpecParse == Init /\ [][NextParse]_vars

\* texts long enough for the 128-bit arithmetic to overflow
InitWide == Init /\ base \in {2, 3}

NextWide ==
    \/ \E str \in WideInputs : ParseX(str)
    \/ \E str \in NarrowInputs : ParseY(str)
    \/ ToRational
    \/ Eq
    \/ Cmp

SpecWide == InitWide /\ [][NextWide]_vars

-----------------------------------------------------------------------------
(* The vocabulary of the properties: the digits a text denotes and the       *)
(* number they denote, computed apart from the parser and without widths     *)

Separators(str) == {i \in 1..Len(str) : str[i] = "_"}

FirstSeparator(str) ==
    IF Separators(str) = {} THEN Len(str) + 1
    ELSE CHOOSE i \in Separators(str) : \A j \in Separators(str) : i <= j

ExactText(str) == SubSeq(str, 1, FirstSeparator(str) - 1)

RepeatingText(str) == SubSeq(str, FirstSeparator(str) + 1, Len(str))

\* the non-empty tokens between the commas of text; cur is the token being read
RECURSIVE TokensOf(_, _)
TokensOf(text, cur) ==
    IF text = << >> THEN (IF cur = << >> THEN << >> ELSE <<cur>>)
    ELSE IF Head(text) = ","
    THEN (IF cur = << >> THEN << >> ELSE <<cur>>) \o TokensOf(Tail(text), << >>)
    ELSE TokensOf(Tail(text), Append(cur, Head(text)))

DigitTokens(text, b) ==
    IF b < 10 THEN [i \in 1..Len(text) |-> <<text[i]>>] ELSE TokensOf(text, << >>)

PlainNumber(tok) == tok # << >> /\ \A i \in 1..Len(tok) : IsDigitChar(tok[i])

\* a decimal numeral, with or without a sign
SignedNumber(tok) ==
    tok # << >> /\ PlainNumber(IF tok[1] = "+" THEN Tail(tok) ELSE tok)

RECURSIVE NumberOf(_)
NumberOf(tok) ==
    IF tok = << >> THEN 0
    ELSE IF tok[1] = "+" THEN NumberOf(Tail(tok))
    ELSE NumberOf(SubSeq(tok, 1, Len(tok) - 1)) * 10 + DigitValue(tok[Len(tok)])

IsDigitBelow(tok, b) == PlainNumber(tok) /\ NumberOf(tok) < b

DigitsOf(text, b) ==
    [i \in 1..Len(DigitTokens(text, b)) |-> NumberOf(DigitTokens(text, b)[i])]

ExactDigits(str, b) == DigitsOf(ExactText(str), b)

RepeatingDigits(str, b) == DigitsOf(RepeatingText(str), b)

\* at most one separator, and every digit a plain number below the base
ValidText(str, b) ==
    /\ Cardinality(Separators(str)) <= 1
    /\ \A text \in {ExactText(str), RepeatingText(str)} :
          \A i \in 1..Len(DigitTokens(text, b)) : IsDigitBelow(DigitTokens(text, b)[i], b)

RECURSIVE IntPow(_, _)
IntPow(b, n) == IF n = 0 THEN 1 ELSE b * IntPow(b, n - 1)

\* the digits read most significant first
RECURSIVE IntValue(_, _, _)
IntValue(digits, n, b) ==
    IF n = 0 THEN 0 ELSE IntValue(digits, n - 1, b) * b + digits[n]

RepeatingDenominator(k, b) == IF k = 0 THEN 1 ELSE IntPow(b, k) - 1

\* the canonical rational of a text: CanonNum / CanonDen, in [0, 1)
CanonDen(str, b) ==
    RepeatingDenominator(Len(RepeatingDigits(str, b)), b)
        * IntPow(b, Len(ExactDigits(str, b)))

CanonNum(str, b) ==
    (RepeatingDenominator(Len(RepeatingDigits(str, b)), b)
         * IntValue(ExactDigits(str, b), Len(ExactDigits(str, b)), b)
     + IntValue(RepeatingDigits(str, b), Len(RepeatingDigits(str, b)), b))
    % CanonDen(str, b)

SameValue(s1, s2, b) == CanonNum(s1, b) * CanonDen(s2, b) = CanonNum(s2, b) * CanonDen(s1, b)

OrderOf(s1, s2, b) ==
    IF CanonNum(s1, b) * CanonDen(s2, b) < CanonNum(s2, b) * CanonDen(s1, b) THEN "Less"
    ELSE IF SameValue(s1, s2, b) THEN "Equal"
    ELSE "Greater"

\* b^n and the value of digits[lo..hi], most significant first, of any size
RECURSIVE NatPow(_, _)
NatPow(b, n) ==
    IF n = 0 THEN One
    ELSE IF n % 2 = 0 THEN NatSquare(NatPow(b, n \div 2))
    ELSE NatMul(b, NatSquare(NatPow(b, n \div 2)))

RECURSIVE ValueOf(_, _, _, _)
ValueOf(digits, lo, hi, b) ==
    IF lo > hi THEN Zero
    ELSE IF lo = hi THEN FromInt(digits[lo])
    ELSE NatAdd(NatMul(ValueOf(digits, lo, (lo + hi) \div 2, b),
                       NatPow(FromInt(b), hi - (lo + hi) \div 2)),
                ValueOf(digits, ((lo + hi) \div 2) + 1, hi, b))

Value(digits, b) == ValueOf(digits, 1, Len(digits), b)

ExactlyOne(p, q, r) == (p /\ ~q /\ ~r) \/ (~p /\ q /\ ~r) \/ (~p /\ ~q /\ r)

Lt(a, b) == partial_cmp(a, b, build) = "Less"

Gt(a, b) == partial_cmp(a, b, build) = "Greater"

\* the values the texts of the model parse to
Parsed == {parse(base, str, build).val :
              str \in {i \in Inputs(base) : parse(base, i, build).tag = "Ok"}}

-----------------------------------------------------------------------------
(* The properties                                                            *)

\* C1: two texts with digits below the base that both parse compare equal
\* with == exactly when their canonical rationals are equal modulo 1,
\* however the digits are split between the exact and the repeating part.
CanonicalEquivalence ==
    (out.op = "eq" /\ ValidText(s, base) /\ ValidText(t, base))
        => (out.equal <=> SameValue(s, t, base))

\* C2: cmp of two parsed values is the numeric order of the canonical
\* rationals their texts denote in the base of the algebra.
OrderingByCanonicalValue ==
    (out.op = "cmp" /\ ValidText(s, base) /\ ValidText(t, base))
        => out.ordering = OrderOf(s, t, base)

\* C3: to_rational of a parsed valid text is a fraction p/q in lowest terms
\* with q >= 1 and 0 <= p/q < 1, the raw numerator reduced modulo the
\* denominator.
UnitIntervalNormalisation ==
    (out.op = "to_rational" /\ ValidText(s, base))
        => /\ out.ratio.tag = "Ok"
           /\ NatLess(Zero, out.ratio.denom)
           /\ NatGcd(out.ratio.numer, out.ratio.denom) = One
           /\ NatLess(out.ratio.numer, out.ratio.denom)
           /\ ToInt(out.ratio.numer) * CanonDen(s, base)
                  = CanonNum(s, base) * ToInt(out.ratio.denom)

\* C4: for parsed values x, y, z exactly one of x < y, x == y, x > y holds,
\* and < is irreflexive and transitive.
OrderingTotality ==
    (x.tag = "Ok" /\ y.tag = "Ok")
        => /\ ExactlyOne(Lt(x.val, y.val), UnitFraction_eq(x.val, y.val), Gt(x.val, y.val))
           /\ ~Lt(x.val, x.val)
           /\ \A z \in Parsed : (Lt(x.val, y.val) /\ Lt(y.val, z)) => Lt(x.val, z)

\* C5: a text with at most one separator in which some digit token is not
\* a number, or is a number not below the base, parses to an error and no
\* UnitFraction.
DigitValidation ==
    (/\ x.tag # "None"
     /\ Cardinality(Separators(s)) <= 1
     /\ \E text \in {ExactText(s), RepeatingText(s)} :
           \E i \in 1..Len(DigitTokens(text, base)) :
              \/ ~SignedNumber(DigitTokens(text, base)[i])
              \/ NumberOf(DigitTokens(text, base)[i]) >= base)
        => (x.tag = "Err" /\ x.val = NoFraction)

\* C6: a text with two or more separators parses to the error of the
\* separators and to no value, whatever its digits; a text with at most one
\* separator never gets that error; a text without a separator parses as
\* the text followed by one.
SeparatorSyntax ==
    x.tag # "None"
        => /\ Cardinality(Separators(s)) >= 2
                 => x = [tag |-> "Err", val |-> NoFraction,
                         err |-> [kind |-> "more than one underscore", token |-> << >>]]
           /\ Cardinality(Separators(s)) <= 1
                 => x.err.kind # "more than one underscore"
           /\ Separators(s) = {}
                 => x = parse(base, Append(s, "_"), build)

\* two separators around a character that is no digit: the error is the
\* separators'
SeparatorSyntaxWitness ==
    /\ s = <<"o", "_", "_">>
    /\ x.tag = "Err"
    /\ x.err.kind = "more than one underscore"

\* C7: a valid text parses to the UnitFraction of the value and the number
\* of its exact digits and the value and the number of its repeating digits,
\* the digits read most significant first.
ParseResult ==
    (x.tag # "None" /\ ValidText(s, base))
        => /\ x.tag = "Ok"
           /\ x.val = UnitFraction_new(Value(ExactDigits(s, base), base),
                                       Len(ExactDigits(s, base)),
                                       Value(RepeatingDigits(s, base), base),
                                       Len(RepeatingDigits(s, base)))

\* C8: to_rational of a parsed valid text d without repeating digits is
\* value_from_digits(b, d) / b^m as a reduced fraction, m the number of digits.
ExactRoundTrip ==
    (out.op = "to_rational" /\ ValidText(s, base) /\ RepeatingDigits(s, base) = << >>)
        => /\ out.ratio.tag = "Ok"
           /\ NatGcd(out.ratio.numer, out.ratio.denom) = One
           /\ NatMul(out.ratio.numer, NatPow(FromInt(base), Len(ExactDigits(s, base))))
                  = NatMul(value_from_digits(base, ExactDigits(s, base)).v,
                           out.ratio.denom)

\* C9: a parsed value offers map_forward.
ForwardMapOffered == x.tag = "Ok" => "map_forward" \in UnitFraction_methods

\* C10: on a value of a successful parse to_rational and cmp complete, the
\* denominator handed to Ratio::new never zero.
NoFailureAfterParse ==
    /\ out.op = "to_rational" => out.ratio.tag = "Ok"
    /\ out.op = "cmp" => out.ordering \in {"Less", "Equal", "Greater"}

====
